---- MODULE Spec2Model ----
(***************************************************************************)
(* State-machine model of aws_role_session: the credentials-file parser    *)
(* (AwsConfigParser), the validated configuration (AwsRoleSessionConfig)   *)
(* and the session object (AwsRoleSession) with its memoized STS client    *)
(* and its list of assumed-role sessions.                                  *)
(*                                                                         *)
(* Python values are modelled as follows: str as TLA+ strings, the str     *)
(* rendering of None as the string "None", objects (sections, clients,     *)
(* sessions) as records, a missing object as PyNone, dicts as functions    *)
(* whose DOMAIN is the set of keys present.                                *)
(***************************************************************************)
EXTENDS Integers, Sequences, FiniteSets, TLC

VARIABLES
    peer,               \* another process on the same credentials file: its parser
    kwargs,             \* the keyword arguments AwsRoleSession was constructed with
    configuration,      \* AwsRoleSessionConfig._configuration (validated dict)
    _role_name,         \* AwsRoleSession._role_name
    _use_mfa,           \* AwsRoleSession._use_mfa
    _profile_name,      \* AwsConfigParser._profile_name
    sections,           \* the in-memory ConfigParser: section name -> options
    credentials_file,   \* the contents of ~/.aws/credentials on disk
    _sts_client_object, \* AwsRoleSession._sts_client_object
    _role_sessions,     \* AwsRoleSession._role_sessions
    now,                \* datetime.now(timezone.utc), in seconds
    ticks,              \* number of clock advances so far
    ops,                \* number of public operations called so far
    tokenLog,           \* get_session_token requests sent to the provider
    assumeLog,          \* assume_role requests sent to the provider
    writes,             \* number of times the credentials file was rewritten
    last                \* what the most recent public operation saw and did

vars == <<peer, kwargs, configuration, _role_name, _use_mfa, _profile_name, sections,
          credentials_file, _sts_client_object, _role_sessions, now, ticks,
          ops, tokenLog, assumeLog, writes, last>>

-----------------------------------------------------------------------------
(* Bounds of the model *)

MaxTicks == 1
MaxOps == 2

InitialNows == {1000}
TickSteps == {901}

(* Program constants *)

DEFAULT_SESSION_DURATION == 43200
ROLE_SESSION_DURATION == 3600

None == "None"
PyNone == [None |-> "None"]

\* no other process uses the credentials file
NoPeer == [_profile_name |-> None, sections |-> <<>>]

-----------------------------------------------------------------------------
(* datetime: an aware UTC instant is [secs, tzinfo]; its ISO-8601 text is  *)
(* the decimal rendering of the instant followed by the UTC offset.        *)

\* Values of settings.session_duration a configuration document may carry,
\* on both sides of the bounds of JSON_SCHEMA
MIN_SESSION_DURATION == 900
MAX_SESSION_DURATION == 129600

CandidateDurations ==
    {MIN_SESSION_DURATION - 1, MIN_SESSION_DURATION, MIN_SESSION_DURATION + 1,
     MAX_SESSION_DURATION, MAX_SESSION_DURATION + 1}

Durations == {900, DEFAULT_SESSION_DURATION} \cup CandidateDurations

Nows == {t + a + (900 * b) : t \in InitialNows, a \in 0..(MaxTicks + 1), b \in 0..(MaxTicks + 1)}

Instants == Nows \cup {t - 1 : t \in InitialNows} \cup {n + d : n \in Nows, d \in Durations}

\* The ISO-8601 text of every instant the model can reach
IsoText == [t \in Instants |-> ToString(t) \o "+00:00"]

isoformat(dt) == IsoText[dt.secs]

fromisoformat(date_string) ==
    [secs |-> CHOOSE t \in Instants : IsoText[t] = date_string,
     tzinfo |-> "UTC"]

-----------------------------------------------------------------------------
(* AwsRoleSessionConfig *)

Config_get_setting(cfg, section_name, setting_name, default_value) ==
    IF section_name \in DOMAIN cfg
    THEN IF setting_name \in DOMAIN cfg[section_name]
         THEN cfg[section_name][setting_name]
         ELSE default_value
    ELSE default_value

default_use_mfa(cfg) == Config_get_setting(cfg, "defaults", "use_mfa", TRUE)

default_profile(cfg) == Config_get_setting(cfg, "defaults", "profile_name", None)

default_role(cfg) == Config_get_setting(cfg, "defaults", "role_name", None)

accounts(cfg) == Config_get_setting(cfg, "settings", "accounts", <<>>)

session_duration(cfg) ==
    Config_get_setting(cfg, "settings", "session_duration", DEFAULT_SESSION_DURATION)

\* next((... for item in items if cond), None): the index of the first item
\* for which cond holds, 0 when there is none
FirstIndex(matches) ==
    IF \E i \in 1..Len(matches) : matches[i]
    THEN CHOOSE i \in 1..Len(matches) : matches[i] /\ \A j \in 1..(i - 1) : ~matches[j]
    ELSE 0

account_role(cfg, account_name) ==
    LET i == FirstIndex([k \in 1..Len(accounts(cfg)) |->
                            /\ accounts(cfg)[k].name = account_name
                            /\ "role" \in DOMAIN accounts(cfg)[k]])
        role == IF i = 0 THEN None ELSE accounts(cfg)[i].role
    IN  IF role = None THEN default_role(cfg) ELSE role

account_id_for_name(cfg, account_name) ==
    LET i == FirstIndex([k \in 1..Len(accounts(cfg)) |-> accounts(cfg)[k].name = account_name])
    IN  IF i = 0 THEN None ELSE accounts(cfg)[i].id

account_name_for_id(cfg, account_id) ==
    LET i == FirstIndex([k \in 1..Len(accounts(cfg)) |-> accounts(cfg)[k].id = account_id])
    IN  IF i = 0 THEN None ELSE accounts(cfg)[i].name

-----------------------------------------------------------------------------
(* AwsConfigParser *)

has_section(secs, name) == name \in DOMAIN secs

\* the comparison also counts the very instant of expiry as expired
_is_expired_inclusive(date_string_utc, t) ==
    IF date_string_utc = None
    THEN TRUE
    ELSE fromisoformat(date_string_utc).secs <= t

_is_expired(date_string_utc, t) ==
    IF date_string_utc = None
    THEN TRUE
    ELSE fromisoformat(date_string_utc).secs < t

\* the expiry test is applied to sections without an expiration_utc option too
_read_profile_unguarded(secs, t, profile_name, allow_missing_profile) ==
    LET profile ==
            IF has_section(secs, profile_name)
            THEN IF _is_expired(IF "expiration_utc" \in DOMAIN secs[profile_name]
                                THEN secs[profile_name]["expiration_utc"]
                                ELSE None, t)
                 THEN PyNone
                 ELSE secs[profile_name]
            ELSE PyNone
    IN  IF profile = PyNone /\ ~allow_missing_profile
        THEN [raised |-> "RuntimeError", profile |-> PyNone]
        ELSE [raised |-> None, profile |-> profile]

\* Returns [raised, profile]; profile is the section's options or PyNone.
_read_profile(secs, t, profile_name, allow_missing_profile) ==
    LET profile ==
            IF has_section(secs, profile_name)
            THEN IF "expiration_utc" \in DOMAIN secs[profile_name]
                    /\ _is_expired(secs[profile_name]["expiration_utc"], t)
                 THEN PyNone
                 ELSE secs[profile_name]
            ELSE PyNone
    IN  IF profile = PyNone /\ ~allow_missing_profile
        THEN [raised |-> "RuntimeError", profile |-> PyNone]
        ELSE [raised |-> None, profile |-> profile]

profile(secs, t, name) == _read_profile(secs, t, name, FALSE).profile

temp_profile_name(name) == "temp-" \o name

temp_profile(secs, t, name) ==
    _read_profile(secs, t, temp_profile_name(name), TRUE).profile

Parser_get_setting(prof, setting_name) ==
    IF prof # PyNone
    THEN IF setting_name \in DOMAIN prof THEN prof[setting_name] ELSE None
    ELSE None

profile_access_key_id(secs, t, name) ==
    Parser_get_setting(profile(secs, t, name), "aws_access_key_id")

profile_secret_access_key(secs, t, name) ==
    Parser_get_setting(profile(secs, t, name), "aws_secret_access_key")

profile_mfa_serial(secs, t, name) ==
    Parser_get_setting(profile(secs, t, name), "mfa_serial")

profile_mfa_key(secs, t, name) ==
    Parser_get_setting(profile(secs, t, name), "mfa_key")

profile_mfa_is_configured(secs, t, name) ==
    profile_mfa_key(secs, t, name) # None /\ profile_mfa_serial(secs, t, name) # None

\* AwsRoleSession constructs the parser without a default region
_default_region == None

\* the region of the base profile is not looked at
aws_region_default_only(secs, t, name) == _default_region

aws_region(secs, t, name) ==
    LET region == Parser_get_setting(profile(secs, t, name), "aws_region")
    IN  IF region # None THEN region ELSE _default_region

temp_profile_access_key_id(secs, t, name) ==
    Parser_get_setting(temp_profile(secs, t, name), "aws_access_key_id")

temp_profile_secret_access_key(secs, t, name) ==
    Parser_get_setting(temp_profile(secs, t, name), "aws_secret_access_key")

temp_profile_session_token(secs, t, name) ==
    Parser_get_setting(temp_profile(secs, t, name), "aws_session_token")

temp_profile_expiration(secs, t, name) ==
    LET expiration_date == Parser_get_setting(temp_profile(secs, t, name), "expiration_utc")
    IN  IF expiration_date # None THEN fromisoformat(expiration_date) ELSE PyNone

-----------------------------------------------------------------------------
(* The identity provider (STS), reached through boto3.  Whether a call     *)
(* succeeds and which temporary key pair it hands out are inputs.          *)

TempCreds ==
    {[AccessKeyId |-> "ASIATEMP", SecretAccessKey |-> "tempsecret", SessionToken |-> "temptoken"]}

TokenChoices == [ok : BOOLEAN, cred : TempCreds]

AssumeChoices == [ok : BOOLEAN]

TypedCodes == {"246810"}

\* GetSessionToken: the returned session expires DurationSeconds from now
get_session_token(request, t, choice) ==
    IF choice.ok
    THEN [ok |-> TRUE,
          Credentials |-> [AccessKeyId |-> choice.cred.AccessKeyId,
                           SecretAccessKey |-> choice.cred.SecretAccessKey,
                           SessionToken |-> choice.cred.SessionToken,
                           Expiration |-> [secs |-> t + request.DurationSeconds,
                                           tzinfo |-> "UTC"]]]
    ELSE [ok |-> FALSE]

\* AssumeRole: every successful call hands out a key pair of its own
assume_role(request, n, choice) ==
    IF choice.ok
    THEN [ok |-> TRUE,
          Credentials |-> [AccessKeyId |-> "ASIAROLE" \o ToString(n),
                           SecretAccessKey |-> "rolesecret" \o ToString(n),
                           SessionToken |-> "roletoken" \o ToString(n)]]
    ELSE [ok |-> FALSE]

\* pyotp.TOTP(key).now(): a function of the shared secret and the 30 s window
TOTP_now(key, t) == "totp:" \o key \o ":" \o ToString(t \div 30)

-----------------------------------------------------------------------------
(* The handlers below thread a record s through the calls: the fields an   *)
(* operation may change, the exception raised so far (error) and the value *)
(* returned (result).  The({f(x) : x \in {e}}) is f applied to the value   *)
(* of e, with e evaluated once.                                            *)

The(S) == CHOOSE x \in S : TRUE

(* AwsConfigParser.store_temp_profile *)

add_section(secs, name) ==
    IF has_section(secs, name)
    THEN [raised |-> "DuplicateSectionError", sections |-> secs]
    ELSE [raised |-> None, sections |-> (name :> <<>>) @@ secs]

\* the option is set on the base profile instead of the temporary one
set_temp_option_on_base(a, t, name, key, value) ==
    IF a.raised # None
    THEN a
    ELSE IF temp_profile(a.sections, t, name) = PyNone
    THEN [raised |-> "TypeError", sections |-> a.sections]
    ELSE [raised |-> None,
          sections |-> [a.sections EXCEPT ![name] = (key :> value) @@ @]]

\* self.temp_profile[key] = value, unless an earlier statement has raised
set_temp_option(a, t, name, key, value) ==
    IF a.raised # None
    THEN a
    ELSE IF temp_profile(a.sections, t, name) = PyNone
    THEN [raised |-> "TypeError", sections |-> a.sections]
    ELSE [raised |-> None,
          sections |-> [a.sections EXCEPT ![temp_profile_name(name)] = (key :> value) @@ @]]

\* only the temporary section is written to the file
write_credentials_file_temp_only(s, a) ==
    IF a.raised # None
    THEN [s EXCEPT !.sections = a.sections, !.error = a.raised]
    ELSE [s EXCEPT !.sections = a.sections,
                   !.file = [n \in DOMAIN a.sections \ DOMAIN s.sections |-> a.sections[n]],
                   !.writes = @ + 1]

\* with open(self._credentials_file, "wt") as configfile: self.write(configfile)
write_credentials_file(s, a) ==
    IF a.raised # None
    THEN [s EXCEPT !.sections = a.sections, !.error = a.raised]
    ELSE [s EXCEPT !.sections = a.sections,
                   !.file = a.sections,
                   !.writes = @ + 1]

store_temp_profile(s, t, name, AccessKeyId, SecretAccessKey, SessionToken, Expiration) ==
    The({The({The({The({The({
        write_credentials_file(s, a4)
        : a4 \in {set_temp_option(a3, t, name, "expiration_utc", isoformat(Expiration))}})
        : a3 \in {set_temp_option(a2, t, name, "aws_session_token", SessionToken)}})
        : a2 \in {set_temp_option(a1, t, name, "aws_secret_access_key", SecretAccessKey)}})
        : a1 \in {set_temp_option(a0, t, name, "aws_access_key_id", AccessKeyId)}})
        : a0 \in {IF temp_profile(s.sections, t, name) = PyNone
                  THEN add_section(s.sections, temp_profile_name(name))
                  ELSE [raised |-> None, sections |-> s.sections]}})

-----------------------------------------------------------------------------
(* AwsRoleSession *)

\* the code is computed as soon as the shared secret is present
_otp_key_only(secs, t, name, typed) ==
    IF profile_mfa_key(secs, t, name) # None
    THEN [code |-> TOTP_now(profile_mfa_key(secs, t, name), t), source |-> "computed"]
    ELSE [code |-> typed, source |-> "interactive"]

\* Returns the code and how it was obtained
_otp(secs, t, name, typed) ==
    IF profile_mfa_is_configured(secs, t, name)
    THEN [code |-> TOTP_now(profile_mfa_key(secs, t, name), t), source |-> "computed"]
    ELSE [code |-> typed, source |-> "interactive"]

\* boto3.client("sts", ...) on the base profile
base_sts_client(secs, t) ==
    [aws_access_key_id |-> profile_access_key_id(secs, t, _profile_name),
     aws_secret_access_key |-> profile_secret_access_key(secs, t, _profile_name),
     region_name |-> aws_region(secs, t, _profile_name)]

\* The keyword arguments of get_session_token and how the code was obtained
session_token_config(secs, t, typed) ==
    IF _use_mfa
    THEN The({[request |-> [DurationSeconds |-> session_duration(configuration),
                            SerialNumber |-> profile_mfa_serial(secs, t, _profile_name),
                            TokenCode |-> otp.code],
               otp |-> otp.source]
              : otp \in {_otp(secs, t, _profile_name, typed)}})
    ELSE [request |-> [DurationSeconds |-> session_duration(configuration)],
          otp |-> "none"]

\* a failed token exchange is swallowed and tried once more
update_temp_profile_retrying(s, t, choice, typed) ==
    IF temp_profile(s.sections, t, _profile_name) = PyNone
    THEN The({The({The({
             IF ~result.ok
             THEN [s1 EXCEPT !.tokenLog = Append(@, s1.tokenLog[Len(s1.tokenLog)]),
                             !.error = "ClientError"]
             ELSE store_temp_profile(s1, t, _profile_name,
                                     result.Credentials.AccessKeyId,
                                     result.Credentials.SecretAccessKey,
                                     result.Credentials.SessionToken,
                                     result.Credentials.Expiration)
             : s1 \in {[s EXCEPT !.tokenLog =
                          Append(@, [client |-> base_sts_client(s.sections, t),
                                     request |-> config.request,
                                     otp |-> config.otp,
                                     response |-> result])]}})
             : result \in {get_session_token(config.request, t, choice)}})
             : config \in {session_token_config(s.sections, t, typed)}})
    ELSE s

update_temp_profile(s, t, choice, typed) ==
    IF temp_profile(s.sections, t, _profile_name) = PyNone
    THEN The({The({The({
             IF ~result.ok
             THEN [s1 EXCEPT !.error = "ClientError"]
             ELSE store_temp_profile(s1, t, _profile_name,
                                     result.Credentials.AccessKeyId,
                                     result.Credentials.SecretAccessKey,
                                     result.Credentials.SessionToken,
                                     result.Credentials.Expiration)
             : s1 \in {[s EXCEPT !.tokenLog =
                          Append(@, [client |-> base_sts_client(s.sections, t),
                                     request |-> config.request,
                                     otp |-> config.otp,
                                     response |-> result])]}})
             : result \in {get_session_token(config.request, t, choice)}})
             : config \in {session_token_config(s.sections, t, typed)}})
    ELSE s

\* boto3.client("sts", ...) on the temporary profile
temp_sts_client(secs, t) ==
    [aws_access_key_id |-> temp_profile_access_key_id(secs, t, _profile_name),
     aws_secret_access_key |-> temp_profile_secret_access_key(secs, t, _profile_name),
     aws_session_token |-> temp_profile_session_token(secs, t, _profile_name),
     region_name |-> aws_region(secs, t, _profile_name)]

\* the memoized client is reused without looking at the temporary profile
_sts_client_memo_only(s, t, choice, typed) ==
    IF s.client = PyNone
    THEN The({IF s1.error # None
              THEN s1
              ELSE [s1 EXCEPT !.client = temp_sts_client(s1.sections, t)]
              : s1 \in {update_temp_profile(s, t, choice, typed)}})
    ELSE s

_sts_client(s, t, choice, typed) ==
    IF s.client = PyNone \/ temp_profile(s.sections, t, _profile_name) = PyNone
    THEN The({IF s1.error # None
              THEN s1
              ELSE [s1 EXCEPT !.client = temp_sts_client(s1.sections, t)]
              : s1 \in {update_temp_profile(s, t, choice, typed)}})
    ELSE s

_get_role(account_name) ==
    IF _role_name = None
    THEN account_role(configuration, account_name)
    ELSE _role_name

_role_to_assume(account_name) ==
    IF _get_role(account_name) = None
    THEN [raised |-> "RuntimeError", arn |-> None]
    ELSE [raised |-> None,
          arn |-> "arn:aws:iam::" \o account_id_for_name(configuration, account_name)
                      \o ":role/" \o _get_role(account_name)]

\* boto3.Session(...) on the credentials assume_role returned; obj tells the
\* session objects apart
Session(n, credentials, region) ==
    [obj |-> n,
     aws_access_key_id |-> credentials.AccessKeyId,
     aws_secret_access_key |-> credentials.SecretAccessKey,
     aws_session_token |-> credentials.SessionToken,
     region_name |-> region]

\* the cache entry is appended before assume_role is called
_get_role_session_caching_first(s, t, account_name, choice, typed, achoice) ==
    The({IF s1.error # None
         THEN s1
         ELSE The({IF role.raised # None
                   THEN [s1 EXCEPT !.error = role.raised]
                   ELSE The({The({
                        IF ~role_credentials.ok
                        THEN [s1 EXCEPT !.assumeLog = Append(@, call),
                                        !.sessions = Append(@, [account |-> account_name,
                                                                session |-> PyNone]),
                                        !.error = "ClientError"]
                        ELSE The({[s1 EXCEPT
                                     !.assumeLog = Append(@, call),
                                     !.sessions = Append(@, [account |-> account_name,
                                                             session |-> result]),
                                     !.result = result]
                                  : result \in {Session(Len(s1.assumeLog) + 1,
                                                        role_credentials.Credentials,
                                                        aws_region(s1.sections, t, _profile_name))}})
                        : call \in {[client |-> s1.client,
                                     request |-> request,
                                     response |-> role_credentials]}})
                        : role_credentials \in {assume_role(request, Len(s1.assumeLog) + 1, achoice)}})
                   : role \in {_role_to_assume(account_name)},
                     request \in {[RoleArn |-> _role_to_assume(account_name).arn,
                                   RoleSessionName |-> "assume-" \o account_name,
                                   DurationSeconds |-> ROLE_SESSION_DURATION]}})
         : s1 \in {_sts_client(s, t, choice, typed)}})

\* self._sts_client is evaluated before the arguments of assume_role
_get_role_session(s, t, account_name, choice, typed, achoice) ==
    The({IF s1.error # None
         THEN s1
         ELSE The({IF role.raised # None
                   THEN [s1 EXCEPT !.error = role.raised]
                   ELSE The({The({
                        IF ~role_credentials.ok
                        THEN [s1 EXCEPT !.assumeLog = Append(@, call),
                                        !.error = "ClientError"]
                        ELSE The({[s1 EXCEPT
                                     !.assumeLog = Append(@, call),
                                     !.sessions = Append(@, [account |-> account_name,
                                                             session |-> result]),
                                     !.result = result]
                                  : result \in {Session(Len(s1.assumeLog) + 1,
                                                        role_credentials.Credentials,
                                                        aws_region(s1.sections, t, _profile_name))}})
                        : call \in {[client |-> s1.client,
                                     request |-> request,
                                     response |-> role_credentials]}})
                        : role_credentials \in {assume_role(request, Len(s1.assumeLog) + 1, achoice)}})
                   : role \in {_role_to_assume(account_name)},
                     request \in {[RoleArn |-> _role_to_assume(account_name).arn,
                                   RoleSessionName |-> "assume-" \o account_name,
                                   DurationSeconds |-> ROLE_SESSION_DURATION]}})
         : s1 \in {_sts_client(s, t, choice, typed)}})

\* the cache lookup returns the first entry whatever its account
_existing_role_session_any(role_sessions, account_name) ==
    IF role_sessions = <<>> THEN PyNone ELSE role_sessions[1].session

\* the cache lookup never finds an entry
_existing_role_session_never(role_sessions, account_name) == PyNone

_existing_role_session(role_sessions, account_name) ==
    The({IF i = 0 THEN PyNone ELSE role_sessions[i].session
         : i \in {FirstIndex([k \in 1..Len(role_sessions) |->
                                 role_sessions[k].account = account_name])}})

\* every call asks the provider for a new session, whatever the cache holds
_role_session_always_new(s, t, account_name, choice, typed, achoice) ==
    _get_role_session(s, t, account_name, choice, typed, achoice)

_role_session(s, t, account_name, choice, typed, achoice) ==
    The({IF session # PyNone
         THEN [s EXCEPT !.result = session]
         ELSE _get_role_session(s, t, account_name, choice, typed, achoice)
         : session \in {_existing_role_session(s.sessions, account_name)}})

-----------------------------------------------------------------------------
(* Public operations.  S0 is the state an operation starts from.           *)

S0 == [sections |-> sections,
       file |-> credentials_file,
       writes |-> writes,
       client |-> _sts_client_object,
       sessions |-> _role_sessions,
       tokenLog |-> tokenLog,
       assumeLog |-> assumeLog,
       error |-> None,
       result |-> PyNone]

Snapshot == [sections |-> sections,
             file |-> credentials_file,
             writes |-> writes,
             client |-> _sts_client_object,
             sessions |-> _role_sessions,
             ntoken |-> Len(tokenLog),
             nassume |-> Len(assumeLog),
             now |-> now]

Commit(op, account_name, s1) ==
    /\ sections' = s1.sections
    /\ credentials_file' = s1.file
    /\ writes' = s1.writes
    /\ _sts_client_object' = s1.client
    /\ _role_sessions' = s1.sessions
    /\ tokenLog' = s1.tokenLog
    /\ assumeLog' = s1.assumeLog
    /\ last' = [op |-> op, account |-> account_name, error |-> s1.error,
                result |-> s1.result, pre |-> Snapshot]
    /\ ops' = ops + 1
    /\ UNCHANGED <<peer, kwargs, configuration, _role_name, _use_mfa, _profile_name,
                   now, ticks>>

AccountNames == {"prod", "dev", "ghost"}
ServiceNames == {"s3"}

\* get_client and get_resource obtain the session of the account and build a
\* service handle on it; last records the session the handle is built on.
get_client ==
    /\ ops < MaxOps
    /\ \E account_name \in AccountNames, service_name \in ServiceNames,
          s0 \in {S0} :
          \E s1 \in {_role_session(s0, now, account_name, choice, typed, achoice) :
                         choice \in TokenChoices, typed \in TypedCodes,
                         achoice \in AssumeChoices} :
              Commit("_role_session", account_name, s1)

get_resource ==
    /\ ops < MaxOps
    /\ \E account_name \in AccountNames, service_name \in ServiceNames,
          s0 \in {S0} :
          \E s1 \in {_role_session(s0, now, account_name, choice, typed, achoice) :
                         choice \in TokenChoices, typed \in TypedCodes,
                         achoice \in AssumeChoices} :
              Commit("_role_session", account_name, s1)

update_temp_profile_call ==
    /\ ops < MaxOps
    /\ \E s0 \in {S0} :
          \E s1 \in {update_temp_profile(s0, now, choice, typed) :
                         choice \in TokenChoices, typed \in TypedCodes} :
              Commit("update_temp_profile", None, s1)

\* The wall clock advances between operations; the program reads it only
\* inside an operation, so an advance counts when an operation can follow it
Tick ==
    /\ ticks < MaxTicks
    /\ ops < MaxOps
    /\ \E step \in TickSteps : now' = now + step
    /\ ticks' = ticks + 1
    /\ UNCHANGED <<peer, kwargs, configuration, _role_name, _use_mfa, _profile_name, sections,
                   credentials_file, _sts_client_object, _role_sessions, ops,
                   tokenLog, assumeLog, writes, last>>

-----------------------------------------------------------------------------
(* Initial states: a validated configuration, the constructor arguments    *)
(* and the credentials file as the operator provisioned it.                *)

Accounts ==
    <<[name |-> "prod", id |-> "123456789012", role |-> "Deploy"],
      [name |-> "dev", id |-> "210987654321"]>>

Configurations ==
    {[defaults |-> [profile_name |-> "work", role_name |-> "Admin"],
      settings |-> [accounts |-> Accounts]],
     [defaults |-> [profile_name |-> "work", role_name |-> "Admin", use_mfa |-> FALSE],
      settings |-> [accounts |-> Accounts, session_duration |-> 900]]}

\* Keyword arguments of AwsRoleSession(...); an argument left out is None
ConstructorArgs ==
    {<<>>, [role_name |-> "Auditor", use_mfa |-> TRUE]}

BaseProfiles ==
    {m @@ [aws_access_key_id |-> "AKIABASE", aws_secret_access_key |-> "basesecret"] :
        m \in {<<>>,
               [mfa_key |-> "JBSWY3DPEHPK3PXP"],
               [mfa_serial |-> "arn:aws:iam::123456789012:mfa/me"],
               [mfa_key |-> "JBSWY3DPEHPK3PXP",
                mfa_serial |-> "arn:aws:iam::123456789012:mfa/me"]}}

StoredTemp ==
    [aws_access_key_id |-> "ASIAOLD", aws_secret_access_key |-> "oldsecret",
     aws_session_token |-> "oldtoken"]

TempSections(t) ==
    {StoredTemp} \cup
    {("expiration_utc" :> isoformat([secs |-> e, tzinfo |-> "UTC"])) @@ StoredTemp :
        e \in {t - 1, t}}

CredentialsFiles(t) ==
    {("work" :> b) : b \in BaseProfiles} \cup
    {("work" :> b) @@ ("temp-work" :> ts) : b \in BaseProfiles, ts \in TempSections(t)}

Init ==
    /\ now \in InitialNows
    /\ configuration \in Configurations
    /\ credentials_file \in CredentialsFiles(now)
    /\ sections = credentials_file
    /\ kwargs \in ConstructorArgs
    /\ peer = NoPeer
    /\ _role_name = IF "role_name" \in DOMAIN kwargs
                    THEN kwargs.role_name
                    ELSE default_role(configuration)
    /\ _profile_name = IF "profile_name" \in DOMAIN kwargs
                       THEN kwargs.profile_name
                       ELSE default_profile(configuration)
    /\ _use_mfa = IF "use_mfa" \in DOMAIN kwargs
                  THEN kwargs.use_mfa
                  ELSE default_use_mfa(configuration)
    /\ _sts_client_object = PyNone
    /\ _role_sessions = <<>>
    /\ ticks = 0
    /\ ops = 0
    /\ tokenLog = <<>>
    /\ assumeLog = <<>>
    /\ writes = 0
    /\ last = [op |-> "init", account |-> None, error |-> None, result |-> PyNone,
               pre |-> [sections |-> sections, file |-> credentials_file, writes |-> 0,
                        client |-> PyNone, sessions |-> <<>>, ntoken |-> 0, nassume |-> 0,
                        now |-> now]]

Next ==
    \/ get_client
    \/ get_resource
    \/ update_temp_profile_call
    \/ Tick

Spec == Init /\ [][Next]_vars

-----------------------------------------------------------------------------
(* Construction.  AwsRoleSession.__init__ reads the configuration, then     *)
(* builds the AwsConfigParser, which reads the credentials file and checks *)
(* the base profile.  Before construction the fields of the object do not  *)
(* exist (None), and last.op is "new".                                     *)

\* os.path.exists(filename) is False
NoFile == [exists |-> FALSE]

OtherSection == [aws_access_key_id |-> "AKIAOTHER", aws_secret_access_key |-> "othersecret"]

\* Base profiles that carry an expiration_utc of their own
DatedBaseProfiles(t) ==
    {("expiration_utc" :> isoformat([secs |-> e, tzinfo |-> "UTC"])) @@
     [aws_access_key_id |-> "AKIABASE", aws_secret_access_key |-> "basesecret"] :
        e \in {t - 1, t}}

\* What may be found at ~/.aws/credentials when the object is constructed
FilesAtConstruction(t) ==
    {NoFile, <<>>, ("other" :> OtherSection)}
        \cup CredentialsFiles(t)
        \cup {("other" :> OtherSection) @@ f : f \in CredentialsFiles(t)}
        \cup {("work" :> b) : b \in DatedBaseProfiles(t)}
        \cup {("work" :> b) @@ ("temp-work" :> OtherSection) : b \in BaseProfiles}

ConstructorArgsWithProfile ==
    ConstructorArgs \cup {[profile_name |-> "other"], [profile_name |-> "temp-work"]}

\* self.read(self._credentials_file); if not self.sections(): raise
_read_config(file) ==
    IF file = NoFile
    THEN [raised |-> "RuntimeError", sections |-> <<>>]
    ELSE IF DOMAIN file = {}
    THEN [raised |-> "RuntimeError", sections |-> file]
    ELSE [raised |-> None, sections |-> file]

\* the profile_name setter; the base profile is read with allow_missing_profile=False
profile_name_setter(secs, t, value) ==
    IF value = None
    THEN [raised |-> "ValueError", _profile_name |-> ""]
    ELSE [raised |-> _read_profile(secs, t, value, FALSE).raised, _profile_name |-> value]

\* AwsConfigParser.__init__: returns [raised, sections, _profile_name]
AwsConfigParser_init(file, t, profile_name) ==
    The({IF config.raised # None
         THEN [raised |-> config.raised, sections |-> config.sections, _profile_name |-> None]
         ELSE The({[raised |-> set.raised, sections |-> config.sections,
                    _profile_name |-> set._profile_name]
                   : set \in {profile_name_setter(config.sections, t, profile_name)}})
         : config \in {_read_config(file)}})

NotConstructed ==
    /\ _role_name = None
    /\ _profile_name = None
    /\ _use_mfa = None
    /\ sections = <<>>
    /\ _sts_client_object = PyNone
    /\ _role_sessions = <<>>

\* AwsRoleSession(profile_name=..., role_name=..., use_mfa=..., configuration=...)
__init__ ==
    /\ last.op = "new"
    /\ \E parser \in {AwsConfigParser_init(
                         credentials_file, now,
                         IF "profile_name" \in DOMAIN kwargs
                         THEN kwargs.profile_name
                         ELSE default_profile(configuration))} :
          /\ last' = [op |-> "__init__", account |-> None, error |-> parser.raised,
                      result |-> PyNone, pre |-> Snapshot]
          /\ IF parser.raised # None
             THEN UNCHANGED <<_role_name, _profile_name, _use_mfa, sections>>
             ELSE /\ _role_name' = IF "role_name" \in DOMAIN kwargs
                                   THEN kwargs.role_name
                                   ELSE default_role(configuration)
                  /\ _profile_name' = parser._profile_name
                  /\ sections' = parser.sections
                  /\ _use_mfa' = IF "use_mfa" \in DOMAIN kwargs
                                 THEN kwargs.use_mfa
                                 ELSE default_use_mfa(configuration)
    /\ UNCHANGED <<peer, kwargs, configuration, credentials_file, _sts_client_object,
                   _role_sessions, now, ticks, ops, tokenLog, assumeLog, writes>>

InitNew ==
    /\ now \in InitialNows
    /\ configuration \in Configurations
    /\ credentials_file \in FilesAtConstruction(now)
    /\ kwargs \in ConstructorArgsWithProfile
    /\ peer = NoPeer
    /\ NotConstructed
    /\ ticks = 0
    /\ ops = 0
    /\ tokenLog = <<>>
    /\ assumeLog = <<>>
    /\ writes = 0
    /\ last = [op |-> "new", account |-> None, error |-> None, result |-> PyNone,
               pre |-> [sections |-> <<>>, file |-> credentials_file, writes |-> 0,
                        client |-> PyNone, sessions |-> <<>>, ntoken |-> 0, nassume |-> 0,
                        now |-> now]]

NextNew == __init__

SpecNew == InitNew /\ [][NextNew]_vars

-----------------------------------------------------------------------------

(* The file write of store_temp_profile, step by step.  open(..., "wt")    *)
(* truncates the credentials file; self.write(configfile) then writes the  *)
(* sections one after the other, each as its header followed by its        *)
(* options; leaving the with block closes the file.  The process can be    *)
(* interrupted between any two steps, and what is in the file then stays.  *)
(* last.order is the order of the sections in the parser and last.written  *)
(* counts the headers and options written so far.                          *)

\* The order in which one section's options are written
OptionOrder ==
    <<"aws_access_key_id", "aws_secret_access_key", "aws_session_token",
      "expiration_utc", "mfa_key", "mfa_serial">>

Header == "[]"

Perms(S) == {f \in [1..Cardinality(S) -> S] : \A x \in S : \E i \in 1..Cardinality(S) : f[i] = x}

\* The header of the section, then its options
SectionItems(name, sec) ==
    <<[section |-> name, option |-> Header]>> \o
    [i \in 1..Len(SelectSeq(OptionOrder, LAMBDA o : o \in DOMAIN sec)) |->
        [section |-> name,
         option |-> SelectSeq(OptionOrder, LAMBDA o : o \in DOMAIN sec)[i]]]

RECURSIVE Items(_, _)
Items(order, secs) ==
    IF order = <<>>
    THEN <<>>
    ELSE SectionItems(Head(order), secs[Head(order)]) \o Items(Tail(order), secs)

\* What the file holds once the first k items have been written
FileAfter(items, k, secs) ==
    [n \in {items[i].section : i \in 1..k} |->
        [o \in {items[i].option :
                    i \in {j \in 1..k : items[j].section = n /\ items[j].option # Header}} |->
            secs[n][o]]]

\* Files in which store_temp_profile can set the four fields
FilesBeforeStore(t) ==
    {f \in CredentialsFiles(t) \cup {("other" :> OtherSection) @@ g : g \in CredentialsFiles(t)} :
        \/ "temp-work" \notin DOMAIN f
        \/ temp_profile(f, t, "work") # PyNone}

\* with open(file=self._credentials_file, mode="wt", encoding="UTF-8") as configfile
open_wt ==
    /\ last.op = "stored"
    /\ credentials_file' = <<>>
    /\ last' = [last EXCEPT !.op = "open"]
    /\ UNCHANGED <<peer, kwargs, configuration, _role_name, _use_mfa, _profile_name, sections,
                   _sts_client_object, _role_sessions, now, ticks, ops, tokenLog,
                   assumeLog, writes>>

\* self.write(configfile), one header or option at a time
write ==
    /\ last.op = "open"
    /\ last.written < Len(Items(last.order, sections))
    /\ credentials_file' = FileAfter(Items(last.order, sections), last.written + 1, sections)
    /\ last' = [last EXCEPT !.written = @ + 1]
    /\ UNCHANGED <<peer, kwargs, configuration, _role_name, _use_mfa, _profile_name, sections,
                   _sts_client_object, _role_sessions, now, ticks, ops, tokenLog,
                   assumeLog, writes>>

\* the end of the with block
close ==
    /\ last.op = "open"
    /\ last.written = Len(Items(last.order, sections))
    /\ writes' = writes + 1
    /\ last' = [last EXCEPT !.op = "closed"]
    /\ UNCHANGED <<peer, kwargs, configuration, _role_name, _use_mfa, _profile_name, sections,
                   credentials_file, _sts_client_object, _role_sessions, now, ticks, ops,
                   tokenLog, assumeLog>>

\* the process is killed, or the write raises
interrupt ==
    /\ last.op \in {"stored", "open"}
    /\ last' = [last EXCEPT !.op = "interrupted"]
    /\ UNCHANGED <<peer, kwargs, configuration, _role_name, _use_mfa, _profile_name, sections,
                   credentials_file, _sts_client_object, _role_sessions, now, ticks, ops,
                   tokenLog, assumeLog, writes>>

\* The state after store_temp_profile has set the four fields in the parser
InitStore ==
    /\ now \in InitialNows
    /\ configuration \in Configurations
    /\ kwargs = <<>>
    /\ peer = NoPeer
    /\ _role_name = default_role(configuration)
    /\ _profile_name = default_profile(configuration)
    /\ _use_mfa = default_use_mfa(configuration)
    /\ credentials_file \in FilesBeforeStore(now)
    /\ \E cred \in TempCreds :
          sections = store_temp_profile(
                         [sections |-> credentials_file, file |-> credentials_file,
                          writes |-> 0, error |-> None],
                         now, "work", cred.AccessKeyId, cred.SecretAccessKey,
                         cred.SessionToken,
                         [secs |-> now + session_duration(configuration),
                          tzinfo |-> "UTC"]).sections
    /\ _sts_client_object = PyNone
    /\ _role_sessions = <<>>
    /\ ticks = 0
    /\ ops = 0
    /\ tokenLog = <<>>
    /\ assumeLog = <<>>
    /\ writes = 0
    /\ \E order \in Perms(DOMAIN credentials_file) :
          last = [op |-> "stored", account |-> None, error |-> None, result |-> PyNone,
                  order |-> IF "temp-work" \in DOMAIN credentials_file
                            THEN order
                            ELSE Append(order, "temp-work"),
                  written |-> 0,
                  pre |-> [sections |-> credentials_file, file |-> credentials_file,
                           writes |-> 0, client |-> PyNone, sessions |-> <<>>,
                           ntoken |-> 0, nassume |-> 0, now |-> now]]

NextStore ==
    \/ open_wt
    \/ write
    \/ close
    \/ interrupt

SpecStore == InitStore /\ [][NextStore]_vars

-----------------------------------------------------------------------------

(* Configuration documents and their validation against JSON_SCHEMA.  The  *)
(* pattern of an account id is not modelled: every id below is twelve      *)
(* digits.                                                                 *)

\* every document is accepted
validate_anything(cfg) == TRUE

\* validate(value, JSON_SCHEMA) does not raise
validate(cfg) ==
    /\ DOMAIN cfg = {"defaults", "settings"}
    /\ {"profile_name", "role_name"} \subseteq DOMAIN cfg.defaults
    /\ DOMAIN cfg.defaults \subseteq {"profile_name", "role_name", "use_mfa"}
    /\ "use_mfa" \in DOMAIN cfg.defaults => cfg.defaults.use_mfa \in BOOLEAN
    /\ {"accounts"} \subseteq DOMAIN cfg.settings
    /\ DOMAIN cfg.settings \subseteq {"accounts", "max_retry_attempts", "session_duration"}
    /\ Len(cfg.settings.accounts) >= 1
    /\ \A i \in 1..Len(cfg.settings.accounts), j \in 1..Len(cfg.settings.accounts) :
          i # j => cfg.settings.accounts[i] # cfg.settings.accounts[j]
    /\ \A i \in 1..Len(cfg.settings.accounts) :
          /\ {"name", "id"} \subseteq DOMAIN cfg.settings.accounts[i]
          /\ DOMAIN cfg.settings.accounts[i] \subseteq {"name", "id", "role", "category"}
    /\ "session_duration" \in DOMAIN cfg.settings =>
          /\ cfg.settings.session_duration >= MIN_SESSION_DURATION
          /\ cfg.settings.session_duration <= MAX_SESSION_DURATION

\* Documents handed to AwsRoleSession(configuration=...)
CandidateConfigurations ==
    {[defaults |-> m @@ [profile_name |-> "work", role_name |-> "Admin"],
      settings |-> d @@ [accounts |-> a]] :
        m \in {<<>>, [use_mfa |-> FALSE]},
        d \in {<<>>} \cup {[session_duration |-> x] : x \in CandidateDurations},
        a \in {Accounts, <<>>}}

\* Base profiles with and without a region of their own
RegionalBaseProfiles ==
    BaseProfiles \cup
    {("aws_region" :> "eu-central-1") @@
     [aws_access_key_id |-> "AKIABASE", aws_secret_access_key |-> "basesecret"]}

\* The state after construction with any document that passes validation
InitValidated ==
    /\ now \in InitialNows
    /\ configuration \in {cfg \in CandidateConfigurations : validate(cfg)}
    /\ credentials_file \in {("work" :> b) @@ ("other" :> OtherSection) :
                                b \in RegionalBaseProfiles}
    /\ sections = credentials_file
    /\ kwargs = <<>>
    /\ peer = NoPeer
    /\ _role_name = default_role(configuration)
    /\ _profile_name = default_profile(configuration)
    /\ _use_mfa = default_use_mfa(configuration)
    /\ _sts_client_object = PyNone
    /\ _role_sessions = <<>>
    /\ ticks = 0
    /\ ops = 0
    /\ tokenLog = <<>>
    /\ assumeLog = <<>>
    /\ writes = 0
    /\ last = [op |-> "init", account |-> None, error |-> None, result |-> PyNone,
               pre |-> [sections |-> sections, file |-> credentials_file, writes |-> 0,
                        client |-> PyNone, sessions |-> <<>>, ntoken |-> 0, nassume |-> 0,
                        now |-> now]]

SpecValidated == InitValidated /\ [][Next]_vars

-----------------------------------------------------------------------------

(* Account lookups.  A configuration document lists account records; the   *)
(* schema's uniqueItems compares whole records.  account_id_for_name and   *)
(* account_name_for_id are applied to every document that validates.       *)

MaxAccounts == 2

LookupNames == {"prod", "dev", "test"}

LookupIds == {"123456789012", "210987654321", "000000000000"}

\* Account records an operator can write down: two names, two ids, a role or none
AccountRecords ==
    {m @@ [name |-> n, id |-> i] :
        m \in {<<>>, [role |-> "Deploy"]},
        n \in {"prod", "dev"},
        i \in {"123456789012", "210987654321"}}

AccountLists ==
    UNION {[1..k -> AccountRecords] : k \in 0..MaxAccounts}

ListedConfigurations ==
    {[defaults |-> [profile_name |-> "work", role_name |-> "Admin"],
      settings |-> [accounts |-> a]] : a \in AccountLists}

\* AwsRoleSessionConfig(configuration) has returned: the document validated
InitConfig ==
    /\ now \in InitialNows
    /\ configuration \in {cfg \in ListedConfigurations : validate(cfg)}
    /\ credentials_file = <<>>
    /\ sections = <<>>
    /\ kwargs = <<>>
    /\ peer = NoPeer
    /\ _role_name = default_role(configuration)
    /\ _profile_name = default_profile(configuration)
    /\ _use_mfa = default_use_mfa(configuration)
    /\ _sts_client_object = PyNone
    /\ _role_sessions = <<>>
    /\ ticks = 0
    /\ ops = 0
    /\ tokenLog = <<>>
    /\ assumeLog = <<>>
    /\ writes = 0
    /\ last = [op |-> "configured", account |-> None, error |-> None, result |-> None]

\* config.account_id_for_name(account_name)
account_id_for_name_call ==
    \E account_name \in LookupNames :
        /\ last' = [op |-> "account_id_for_name", account |-> account_name,
                    error |-> None,
                    result |-> account_id_for_name(configuration, account_name)]
        /\ UNCHANGED <<peer, kwargs, configuration, _role_name, _use_mfa, _profile_name,
                       sections, credentials_file, _sts_client_object,
                       _role_sessions, now, ticks, ops, tokenLog, assumeLog, writes>>

\* config.account_name_for_id(account_id)
account_name_for_id_call ==
    \E account_id \in LookupIds :
        /\ last' = [op |-> "account_name_for_id", account |-> account_id,
                    error |-> None,
                    result |-> account_name_for_id(configuration, account_id)]
        /\ UNCHANGED <<peer, kwargs, configuration, _role_name, _use_mfa, _profile_name,
                       sections, credentials_file, _sts_client_object,
                       _role_sessions, now, ticks, ops, tokenLog, assumeLog, writes>>

NextConfig ==
    \/ account_id_for_name_call
    \/ account_name_for_id_call

SpecConfig == InitConfig /\ [][NextConfig]_vars

-----------------------------------------------------------------------------

(* The _sts_client property, statement by statement.  The guard, the call  *)
(* of update_temp_profile and each of the three temp_profile_* reads look  *)
(* at the clock on their own, so the clock may advance between them.       *)
(* last.op is the statement reached; last.key, last.secret and last.token  *)
(* are the values read so far for boto3.client.                            *)

StsIdle == last.op \in {"init", "returned", "built", "raised"}

StsStep(op, error, result, key, secret, token) ==
    [op |-> op, account |-> None, error |-> error, result |-> result,
     pre |-> IF StsIdle THEN Snapshot ELSE last.pre,
     key |-> key, secret |-> secret, token |-> token]

\* if self._sts_client_object is None or self._aws_config_parser.temp_profile is None
sts_guard ==
    /\ StsIdle
    /\ ops < MaxOps
    /\ IF _sts_client_object = PyNone \/ temp_profile(sections, now, _profile_name) = PyNone
       THEN /\ last' = StsStep("guarded", None, PyNone, None, None, None)
            /\ ops' = ops
       ELSE /\ last' = StsStep("returned", None, _sts_client_object, None, None, None)
            /\ ops' = ops + 1
    /\ UNCHANGED <<peer, kwargs, configuration, _role_name, _use_mfa, _profile_name, sections,
                   credentials_file, _sts_client_object, _role_sessions, now, ticks,
                   tokenLog, assumeLog, writes>>

\* self.update_temp_profile()
sts_update_temp_profile ==
    /\ last.op = "guarded"
    /\ \E s0 \in {S0} :
          \E s1 \in {update_temp_profile(s0, now, choice, typed) :
                         choice \in TokenChoices, typed \in TypedCodes} :
              /\ sections' = s1.sections
              /\ credentials_file' = s1.file
              /\ writes' = s1.writes
              /\ tokenLog' = s1.tokenLog
              /\ IF s1.error # None
                 THEN /\ last' = StsStep("raised", s1.error, PyNone, None, None, None)
                      /\ ops' = ops + 1
                 ELSE /\ last' = StsStep("updated", None, PyNone, None, None, None)
                      /\ ops' = ops
    /\ UNCHANGED <<peer, kwargs, configuration, _role_name, _use_mfa, _profile_name,
                   _sts_client_object, _role_sessions, now, ticks, assumeLog>>

\* aws_access_key_id=self._aws_config_parser.temp_profile_access_key_id
sts_read_access_key_id ==
    /\ last.op = "updated"
    /\ last' = StsStep("key_read", None, PyNone,
                       temp_profile_access_key_id(sections, now, _profile_name),
                       None, None)
    /\ UNCHANGED <<peer, kwargs, configuration, _role_name, _use_mfa, _profile_name, sections,
                   credentials_file, _sts_client_object, _role_sessions, now, ticks,
                   ops, tokenLog, assumeLog, writes>>

\* aws_secret_access_key=self._aws_config_parser.temp_profile_secret_access_key
sts_read_secret_access_key ==
    /\ last.op = "key_read"
    /\ last' = StsStep("secret_read", None, PyNone, last.key,
                       temp_profile_secret_access_key(sections, now, _profile_name),
                       None)
    /\ UNCHANGED <<peer, kwargs, configuration, _role_name, _use_mfa, _profile_name, sections,
                   credentials_file, _sts_client_object, _role_sessions, now, ticks,
                   ops, tokenLog, assumeLog, writes>>

\* aws_session_token=self._aws_config_parser.temp_profile_session_token
sts_read_session_token ==
    /\ last.op = "secret_read"
    /\ last' = StsStep("token_read", None, PyNone, last.key, last.secret,
                       temp_profile_session_token(sections, now, _profile_name))
    /\ UNCHANGED <<peer, kwargs, configuration, _role_name, _use_mfa, _profile_name, sections,
                   credentials_file, _sts_client_object, _role_sessions, now, ticks,
                   ops, tokenLog, assumeLog, writes>>

\* region_name=self._aws_config_parser.aws_region and the call of
\* boto3.client, which refuses a key id without a secret key (and the
\* reverse) and accepts the two both given or both None
sts_boto3_client ==
    /\ last.op = "token_read"
    /\ IF (last.key = None) # (last.secret = None)
       THEN /\ last' = StsStep("raised", "PartialCredentialsError", PyNone,
                               last.key, last.secret, last.token)
            /\ UNCHANGED _sts_client_object
       ELSE \E client \in {[aws_access_key_id |-> last.key,
                            aws_secret_access_key |-> last.secret,
                            aws_session_token |-> last.token,
                            region_name |-> aws_region(sections, now, _profile_name)]} :
                /\ _sts_client_object' = client
                /\ last' = StsStep("built", None, client,
                                   last.key, last.secret, last.token)
    /\ ops' = ops + 1
    /\ UNCHANGED <<peer, kwargs, configuration, _role_name, _use_mfa, _profile_name, sections,
                   credentials_file, _role_sessions, now, ticks, tokenLog, assumeLog,
                   writes>>

NextSts ==
    \/ sts_guard
    \/ sts_update_temp_profile
    \/ sts_read_access_key_id
    \/ sts_read_secret_access_key
    \/ sts_read_session_token
    \/ sts_boto3_client
    \/ Tick

SpecSts == Init /\ [][NextSts]_vars

-----------------------------------------------------------------------------

(* Two processes on one credentials file.  The process of the variables    *)
(* above drives the base profile work; peer is the parser of a second      *)
(* process that runs the same program on the base profile other.  Each     *)
(* process reads the file once, when it is constructed, and rewrites it    *)
(* from its own parser in store_temp_profile.                              *)

PeerProfileName == "other"

PeerCreds ==
    [AccessKeyId |-> "ASIAPEER", SecretAccessKey |-> "peersecret", SessionToken |-> "peertoken"]

\* The file before either process has started: both base profiles, and for
\* work the temporary sections of CredentialsFiles
SharedFiles(t) == {("other" :> OtherSection) @@ f : f \in CredentialsFiles(t)}

InitShared ==
    /\ now \in InitialNows
    /\ configuration \in Configurations
    /\ credentials_file \in SharedFiles(now)
    /\ kwargs \in ConstructorArgs
    /\ peer = NoPeer
    /\ NotConstructed
    /\ ticks = 0
    /\ ops = 0
    /\ tokenLog = <<>>
    /\ assumeLog = <<>>
    /\ writes = 0
    /\ last = [op |-> "new", account |-> None, error |-> None, result |-> PyNone,
               pre |-> [sections |-> <<>>, file |-> credentials_file, writes |-> 0,
                        client |-> PyNone, sessions |-> <<>>, ntoken |-> 0, nassume |-> 0,
                        now |-> now]]

\* the second process constructs its AwsConfigParser
peer_init ==
    /\ peer = NoPeer
    /\ \E parser \in {AwsConfigParser_init(credentials_file, now, PeerProfileName)} :
          /\ parser.raised = None
          /\ peer' = [_profile_name |-> parser._profile_name, sections |-> parser.sections]
    /\ UNCHANGED <<kwargs, configuration, _role_name, _use_mfa, _profile_name, sections,
                   credentials_file, _sts_client_object, _role_sessions, now, ticks,
                   ops, tokenLog, assumeLog, writes, last>>

\* update_temp_profile in the second process: [sections, file, writes] after it
peer_update_temp_profile_result(choice) ==
    IF temp_profile(peer.sections, now, peer._profile_name) = PyNone
    THEN The({IF ~result.ok
              THEN [sections |-> peer.sections, file |-> credentials_file, writes |-> writes]
              ELSE The({[sections |-> s1.sections, file |-> s1.file, writes |-> s1.writes]
                        : s1 \in {store_temp_profile(
                                      [S0 EXCEPT !.sections = peer.sections],
                                      now, peer._profile_name,
                                      PeerCreds.AccessKeyId,
                                      PeerCreds.SecretAccessKey,
                                      PeerCreds.SessionToken,
                                      result.Credentials.Expiration)}})
              : result \in {get_session_token(
                                [DurationSeconds |-> session_duration(configuration)],
                                now, choice)}})
    ELSE [sections |-> peer.sections, file |-> credentials_file, writes |-> writes]

peer_update_temp_profile ==
    /\ peer # NoPeer
    /\ \E r \in {peer_update_temp_profile_result(choice) : choice \in TokenChoices} :
          /\ peer' = [peer EXCEPT !.sections = r.sections]
          /\ credentials_file' = r.file
          /\ writes' = r.writes
    /\ UNCHANGED <<kwargs, configuration, _role_name, _use_mfa, _profile_name, sections,
                   _sts_client_object, _role_sessions, now, ticks, ops, tokenLog,
                   assumeLog, last>>

\* update_temp_profile in the first process, once it has been constructed
shared_update_temp_profile ==
    /\ _profile_name # None
    /\ update_temp_profile_call

NextShared ==
    \/ __init__
    \/ peer_init
    \/ shared_update_temp_profile
    \/ peer_update_temp_profile
    \/ Tick

SpecShared == InitShared /\ [][NextShared]_vars

-----------------------------------------------------------------------------

(* Vocabulary of the properties.  Everything below is stated on the logs   *)
(* and on last, not through the operators of the model.                    *)

TempName == "temp-" \o _profile_name

ConfiguredAccounts == configuration.settings.accounts

IsConfigured(a) == \E i \in 1..Len(ConfiguredAccounts) : ConfiguredAccounts[i].name = a

\* the id of the (first) account record named a
ConfiguredId(a) ==
    LET i == CHOOSE k \in 1..Len(ConfiguredAccounts) :
                 /\ ConfiguredAccounts[k].name = a
                 /\ \A j \in 1..(k - 1) : ConfiguredAccounts[j].name # a
    IN  ConfiguredAccounts[i].id

Cached(role_sessions, a) == \E i \in 1..Len(role_sessions) : role_sessions[i].account = a

\* the instant an expiration_utc text denotes
InstantOf(text) == CHOOSE e \in Instants : (ToString(e) \o "+00:00") = text

HasTemp(secs) == TempName \in DOMAIN secs

HasExpiration(secs) == HasTemp(secs) /\ "expiration_utc" \in DOMAIN secs[TempName]

ExpirationOf(secs) == InstantOf(secs[TempName]["expiration_utc"])

\* provider calls made by the most recent operation
TokenCallsMade == Len(tokenLog) - last.pre.ntoken
AssumeCallsMade == Len(assumeLog) - last.pre.nassume
WritesMade == writes - last.pre.writes

LastToken == tokenLog[Len(tokenLog)]
LastAssume == assumeLog[Len(assumeLog)]

SessionCall == last.op = "_role_session"
RefreshCall == last.op = "update_temp_profile"

-----------------------------------------------------------------------------
\* C1: once sessionFor(a) has succeeded, a further sessionFor(a) on the same
\* instance returns the very session object the first call created and makes
\* no assume-role call; the first call made exactly one, so over both calls
\* exactly one assume-role call succeeded for a.
SuccessfulAssumesFor(a) ==
    {i \in 1..Len(assumeLog) :
        assumeLog[i].response.ok /\ assumeLog[i].request.RoleSessionName = "assume-" \o a}

C1_SecondCallReusesSession ==
    /\ (SessionCall /\ Cached(last.pre.sessions, last.account)) =>
          /\ last.error = None
          /\ AssumeCallsMade = 0
          /\ Cardinality(SuccessfulAssumesFor(last.account)) = 1
          /\ \A i \in SuccessfulAssumesFor(last.account) : last.result.obj = i
    /\ (SessionCall /\ ~Cached(last.pre.sessions, last.account) /\ last.error = None) =>
          /\ AssumeCallsMade = 1
          /\ SuccessfulAssumesFor(last.account) = {Len(assumeLog)}
          /\ last.result.obj = Len(assumeLog)

C1_Witness ==
    /\ SessionCall
    /\ Cached(last.pre.sessions, last.account)
    /\ last.error = None
    /\ Len(assumeLog) > 0

\* C2: sessionFor(a) for an account name that is not configured ends in a
\* configuration error and makes no provider call, neither get_session_token
\* nor assume_role.
C2_UnknownAccountFailsBeforeAnyCall ==
    (SessionCall /\ ~IsConfigured(last.account)) =>
        /\ last.error = "RuntimeError"
        /\ TokenCallsMade = 0
        /\ AssumeCallsMade = 0

\* C3: the role ARN passed to assume-role for a configured account a is
\* arn:aws:iam::<id of a>:role/<role>, the role being the constructor's role
\* name when given, else the override of a when it has one, else the default.
HasOverride(a) ==
    \E i \in 1..Len(ConfiguredAccounts) :
        ConfiguredAccounts[i].name = a /\ "role" \in DOMAIN ConfiguredAccounts[i]

OverrideOf(a) ==
    LET i == CHOOSE k \in 1..Len(ConfiguredAccounts) :
                 ConfiguredAccounts[k].name = a /\ "role" \in DOMAIN ConfiguredAccounts[k]
    IN  ConfiguredAccounts[i].role

ExpectedRole(a) ==
    IF "role_name" \in DOMAIN kwargs THEN kwargs.role_name
    ELSE IF HasOverride(a) THEN OverrideOf(a)
    ELSE configuration.defaults.role_name

C3_RoleArnPrecedence ==
    (SessionCall /\ AssumeCallsMade > 0 /\ IsConfigured(last.account)) =>
        LastAssume.request.RoleArn =
            "arn:aws:iam::" \o ConfiguredId(last.account) \o ":role/" \o ExpectedRole(last.account)

\* C4 as claimed: the temporary section is read as expired when it is
\* absent, as not expired when it has no expiration, and otherwise as
\* expired if and only if its expiration e is at or before now (e <= now).
\* update_temp_profile calls the provider exactly when it read the section
\* as expired.
C4_ExpiredAtOrBeforeNow ==
    RefreshCall =>
        ((TokenCallsMade > 0) <=>
            \/ ~HasTemp(last.pre.sections)
            \/ /\ HasExpiration(last.pre.sections)
               /\ ExpirationOf(last.pre.sections) <= last.pre.now)

\* C4 as amended: absent -> expired; no expiration field -> not expired;
\* expiration e -> expired if and only if e < now, so a section whose
\* expiration equals now is still read as valid.
C4_ExpiredStrictlyBeforeNow ==
    RefreshCall =>
        ((TokenCallsMade > 0) <=>
            \/ ~HasTemp(last.pre.sections)
            \/ /\ HasExpiration(last.pre.sections)
               /\ ExpirationOf(last.pre.sections) < last.pre.now)

C4_Witness ==
    /\ RefreshCall
    /\ HasExpiration(last.pre.sections)
    /\ ExpirationOf(last.pre.sections) = last.pre.now
    /\ TokenCallsMade = 0

\* the temporary section was present and not expired when the operation began
PreValid ==
    /\ HasTemp(last.pre.sections)
    /\ HasExpiration(last.pre.sections) => ExpirationOf(last.pre.sections) >= last.pre.now

\* C5: update_temp_profile on a present, not expired temporary section makes
\* no token-exchange call and no write, and leaves the section, the parser
\* and the file as they were.
C5_RefreshIsNoOpWhenValid ==
    (RefreshCall /\ PreValid) =>
        /\ last.error = None
        /\ TokenCallsMade = 0
        /\ WritesMade = 0
        /\ sections = last.pre.sections
        /\ credentials_file = last.pre.file

\* a second call right after a call that refreshed and wrote the section
C5_Witness ==
    /\ RefreshCall
    /\ PreValid
    /\ last.pre.writes = 1
    /\ last.pre.ntoken = 1
    /\ ticks = 0

\* C6: when update_temp_profile returns without error from an invalid
\* temporary section, the section holds exactly the key id, secret and token
\* the provider returned and the provider's expiration, which lies after the
\* time of the call, and the file holds the same.
C6_SectionHoldsProviderCredentials ==
    (RefreshCall /\ ~PreValid /\ last.error = None) =>
        /\ TokenCallsMade = 1
        /\ LastToken.response.ok
        /\ HasTemp(sections)
        /\ DOMAIN sections[TempName] =
              {"aws_access_key_id", "aws_secret_access_key", "aws_session_token", "expiration_utc"}
        /\ sections[TempName]["aws_access_key_id"] = LastToken.response.Credentials.AccessKeyId
        /\ sections[TempName]["aws_secret_access_key"] = LastToken.response.Credentials.SecretAccessKey
        /\ sections[TempName]["aws_session_token"] = LastToken.response.Credentials.SessionToken
        /\ ExpirationOf(sections) = LastToken.response.Credentials.Expiration.secs
        /\ ExpirationOf(sections) > last.pre.now
        /\ credentials_file = sections

C6_Witness ==
    /\ RefreshCall
    /\ ~PreValid
    /\ last.error = None
    /\ WritesMade = 1

\* C7: from an absent and from an expired temporary section alike,
\* update_temp_profile with a succeeding token exchange completes without
\* error and leaves the section present and not expired.
C7_RefreshSucceedsFromBothInvalidStates ==
    (RefreshCall /\ ~PreValid /\ TokenCallsMade > 0 /\ LastToken.response.ok) =>
        /\ last.error = None
        /\ HasTemp(sections)
        /\ HasExpiration(sections)
        /\ ExpirationOf(sections) > last.pre.now

\* C8 as claimed: when a refresh is needed the one-time password is computed
\* from the shared secret exactly when secret and serial are both present
\* and use-MFA is enabled; in every other combination it is typed in.
KeyPresent == "mfa_key" \in DOMAIN sections[_profile_name]
SerialPresent == "mfa_serial" \in DOMAIN sections[_profile_name]

C8_OtpComputedOrTyped ==
    (last.op # "init" /\ TokenCallsMade > 0) =>
        IF KeyPresent /\ SerialPresent /\ _use_mfa
        THEN LastToken.otp = "computed"
        ELSE LastToken.otp = "interactive"

\* C8 as amended: with use-MFA enabled the code is computed from the shared
\* secret exactly when secret and serial are both present and typed in
\* otherwise; with use-MFA disabled no code is obtained at all and the token
\* exchange is called with the duration only.
C8_OtpOnlyWhenMfaIsUsed ==
    (last.op # "init" /\ TokenCallsMade > 0) =>
        IF ~_use_mfa
        THEN /\ LastToken.otp = "none"
             /\ DOMAIN LastToken.request = {"DurationSeconds"}
        ELSE IF KeyPresent /\ SerialPresent
        THEN /\ LastToken.otp = "computed"
             /\ LastToken.request.TokenCode \notin TypedCodes
             /\ LastToken.request.SerialNumber = sections[_profile_name]["mfa_serial"]
        ELSE /\ LastToken.otp = "interactive"
             /\ LastToken.request.TokenCode \in TypedCodes

C8_Witness ==
    /\ RefreshCall
    /\ TokenCallsMade > 0
    /\ ~_use_mfa
    /\ KeyPresent
    /\ SerialPresent

\* C9: every assume-role call goes through a client that carries the
\* credentials stored in the temporary section, which is not expired at the
\* time of the call; the memoized client always equals what the section
\* holds; and an operation that finds the section invalid attempts a refresh
\* and then either fails or uses a client built from the refreshed section.
ClientMatchesSection(client, secs) ==
    /\ HasTemp(secs)
    /\ client # PyNone
    /\ "aws_access_key_id" \in DOMAIN secs[TempName]
    /\ "aws_secret_access_key" \in DOMAIN secs[TempName]
    /\ "aws_session_token" \in DOMAIN secs[TempName]
    /\ client.aws_access_key_id = secs[TempName]["aws_access_key_id"]
    /\ client.aws_secret_access_key = secs[TempName]["aws_secret_access_key"]
    /\ client.aws_session_token = secs[TempName]["aws_session_token"]

RoleNames == {"Admin", "Deploy", "Auditor"}

IdFor(a) == IF IsConfigured(a) THEN ConfiguredId(a) ELSE "None"

CreatedFor(session, a) ==
    /\ session.obj \in 1..Len(assumeLog)
    /\ assumeLog[session.obj].response.ok
    /\ assumeLog[session.obj].request.RoleSessionName = "assume-" \o a
    /\ \E r \in RoleNames :
          assumeLog[session.obj].request.RoleArn = "arn:aws:iam::" \o IdFor(a) \o ":role/" \o r
    /\ session.aws_access_key_id = assumeLog[session.obj].response.Credentials.AccessKeyId
    /\ session.aws_secret_access_key = assumeLog[session.obj].response.Credentials.SecretAccessKey
    /\ session.aws_session_token = assumeLog[session.obj].response.Credentials.SessionToken

C10_CacheEntriesBelongToTheirAccount ==
    /\ \A k \in 1..Len(_role_sessions) :
          CreatedFor(_role_sessions[k].session, _role_sessions[k].account)
    /\ (SessionCall /\ last.error = None) =>
          /\ CreatedFor(last.result, last.account)
          /\ \E k \in 1..Len(_role_sessions) :
                _role_sessions[k] = [account |-> last.account, session |-> last.result]

\* a session returned while the cache holds sessions of two accounts
C10_Witness ==
    /\ SessionCall
    /\ last.error = None
    /\ Len(_role_sessions) = 2
    /\ _role_sessions[1].account # _role_sessions[2].account

-----------------------------------------------------------------------------
\* C11: in every state reached by get_client / get_resource calls (and
\* refreshes and clock advances) the list _role_sessions holds at most one
\* entry per account name.
C11_OneCacheEntryPerAccount ==
    \A i \in 1..Len(_role_sessions), j \in 1..Len(_role_sessions) :
        _role_sessions[i].account = _role_sessions[j].account => i = j

\* a session was asked again for an account the cache already held
C11_Witness ==
    /\ SessionCall
    /\ last.error = None
    /\ Cached(last.pre.sessions, last.account)
    /\ Len(_role_sessions) = Len(last.pre.sessions)
    /\ Len(assumeLog) = Len(_role_sessions)

-----------------------------------------------------------------------------
\* C12: when the provider's token exchange fails during a refresh, the
\* operation ends in the provider's error, it has made exactly one
\* token-exchange call, and the credentials file, the parser's sections and
\* the memoized client are as they were before the call; no assume-role call
\* follows.
C12_FailedTokenExchangeChangesNothing ==
    (last.op # "init" /\ TokenCallsMade > 0 /\ ~LastToken.response.ok) =>
        /\ last.error = "ClientError"
        /\ TokenCallsMade = 1
        /\ WritesMade = 0
        /\ credentials_file = last.pre.file
        /\ sections = last.pre.sections
        /\ _sts_client_object = last.pre.client
        /\ AssumeCallsMade = 0

\* the exchange failed while the file held an expired temporary section
C12_Witness ==
    /\ RefreshCall
    /\ TokenCallsMade = 1
    /\ ~LastToken.response.ok
    /\ HasTemp(last.pre.sections)
    /\ last.error = "ClientError"

-----------------------------------------------------------------------------
\* C13: construction fails, with no provider call and no write, exactly
\* when the credentials file does not exist, or holds no section, or
\* does not hold the section of the named base profile; in every other case
\* it succeeds.
NamedProfile ==
    IF "profile_name" \in DOMAIN kwargs
    THEN kwargs.profile_name
    ELSE configuration.defaults.profile_name

FileLacksProfile ==
    \/ credentials_file = NoFile
    \/ DOMAIN credentials_file = {}
    \/ NamedProfile \notin DOMAIN credentials_file

\* the section of the base profile is there, with an expiration_utc before now
BaseProfileOutdated ==
    /\ ~FileLacksProfile
    /\ "expiration_utc" \in DOMAIN credentials_file[NamedProfile]
    /\ InstantOf(credentials_file[NamedProfile]["expiration_utc"]) < now

ConstructionTouchesNothing ==
    /\ Len(tokenLog) = 0
    /\ Len(assumeLog) = 0
    /\ writes = 0
    /\ credentials_file = last.pre.file

C13_ConstructionFailsOnlyWithoutProfile ==
    last.op = "__init__" =>
        /\ ConstructionTouchesNothing
        /\ (last.error # None) <=> FileLacksProfile

\* What construction does: it fails in the three cases above and also when
\* the section of the base profile is present but carries an expiration_utc
\* that lies before now (the error then says the file does not contain the
\* profile); it never calls the provider or writes the file.
ConstructionFailsWithoutUsableProfile ==
    last.op = "__init__" =>
        /\ ConstructionTouchesNothing
        /\ (last.error # None) <=> (FileLacksProfile \/ BaseProfileOutdated)
        /\ last.error # None => /\ last.error = "RuntimeError"
                                /\ NotConstructed
        /\ last.error = None => /\ sections = credentials_file
                                /\ _profile_name = NamedProfile

\* construction failed on a file that holds the section of the base profile
ConstructionFailsOnOutdatedProfile ==
    /\ last.op = "__init__"
    /\ last.error = "RuntimeError"
    /\ BaseProfileOutdated

-----------------------------------------------------------------------------
\* C14: round trip of the temporary section.  Whenever store_temp_profile
\* has been handed the credentials of a succeeded token exchange, whose
\* expiration lies in the future, reading the temporary section through the
\* temp_profile_* properties returns the same four values.
StoredCredentials == LastToken.response.Credentials

ReadBackEqualsStored ==
    /\ temp_profile_access_key_id(sections, now, _profile_name) = StoredCredentials.AccessKeyId
    /\ temp_profile_secret_access_key(sections, now, _profile_name) =
          StoredCredentials.SecretAccessKey
    /\ temp_profile_session_token(sections, now, _profile_name) = StoredCredentials.SessionToken
    /\ temp_profile_expiration(sections, now, _profile_name) = StoredCredentials.Expiration

C14_StoreThenReadRoundTrip ==
    (last.op # "init" /\ TokenCallsMade > 0 /\ LastToken.response.ok
        /\ StoredCredentials.Expiration.secs > now) =>
        ReadBackEqualsStored

\* The round trip does hold whenever store_temp_profile returned
RoundTripWhenStored ==
    (last.op # "init" /\ TokenCallsMade > 0 /\ LastToken.response.ok
        /\ StoredCredentials.Expiration.secs > now /\ last.error = None) =>
        ReadBackEqualsStored

-----------------------------------------------------------------------------
\* C15: the write of the credentials file is all-or-nothing.  When the write
\* is interrupted at any point, the file holds either the complete previous
\* contents or the complete new contents, never an empty or partly written
\* file.
C15_InterruptedWriteIsAllOrNothing ==
    last.op = "interrupted" =>
        \/ credentials_file = last.pre.file
        \/ credentials_file = sections

\* A write that runs to its end leaves the parser's sections in the file
CompletedWriteIsWhole ==
    last.op = "closed" => (credentials_file = sections /\ writes = 1)

\* the write was interrupted right after the file was opened
InterruptedAfterOpen ==
    /\ last.op = "interrupted"
    /\ last.written = 0
    /\ credentials_file = <<>>
    /\ last.pre.file # <<>>

-----------------------------------------------------------------------------
\* C16: the name of the temporary section is temp-<base profile name>; two
\* distinct base profile names never give the same temporary section name,
\* and the temporary section name of the base profile in use is never the
\* name of another identity profile section of the file.
ProfileNames == {"work", "other", "temp-work"}

\* An identity profile is a section with a long-lived key pair: it has no
\* session token
IsIdentityProfile(sec) ==
    /\ "aws_access_key_id" \in DOMAIN sec
    /\ "aws_session_token" \notin DOMAIN sec
    /\ "expiration_utc" \notin DOMAIN sec

TempNameInjective ==
    \A p \in ProfileNames, q \in ProfileNames :
        p # q => temp_profile_name(p) # temp_profile_name(q)

C16_TempSectionNameCollisionFree ==
    (last.op = "__init__" /\ last.error = None) =>
        /\ TempNameInjective
        /\ \A n \in DOMAIN credentials_file :
              (n # _profile_name /\ IsIdentityProfile(credentials_file[n])) =>
                  temp_profile_name(_profile_name) # n

\* the base profile in use has an identity profile under its temporary name
TempNameIsAnotherProfile ==
    /\ last.op = "__init__"
    /\ last.error = None
    /\ _profile_name = "work"
    /\ "temp-work" \in DOMAIN credentials_file
    /\ IsIdentityProfile(credentials_file["temp-work"])
    /\ temp_profile(sections, now, _profile_name) = credentials_file["temp-work"]

-----------------------------------------------------------------------------
\* C17: for every configuration that passes validation, every token
\* exchange is asked for the configured session_duration, or for 43200
\* seconds when none is configured, a value between 900 and 129600; every
\* assume-role call is asked for 3600 seconds.
ConfiguredDuration ==
    IF "session_duration" \in DOMAIN configuration.settings
    THEN configuration.settings.session_duration
    ELSE 43200

C17_DurationsPassedToProvider ==
    /\ \A i \in 1..Len(tokenLog) :
          /\ tokenLog[i].request.DurationSeconds = ConfiguredDuration
          /\ tokenLog[i].request.DurationSeconds \in 900..129600
    /\ \A i \in 1..Len(assumeLog) :
          assumeLog[i].request.DurationSeconds = 3600

\* a token exchange at the upper bound of the schema, then an assume-role call
C17_Witness ==
    /\ "session_duration" \in DOMAIN configuration.settings
    /\ configuration.settings.session_duration = 129600
    /\ Len(tokenLog) > 0
    /\ Len(assumeLog) > 0

-----------------------------------------------------------------------------
\* C18: the base STS client, the temporary STS client and every assumed-role
\* session are given the same region: the aws_region of the base profile
\* when it has one, else the default region the parser was constructed with,
\* else none.
ExpectedRegion ==
    IF "aws_region" \in DOMAIN sections[_profile_name]
    THEN sections[_profile_name]["aws_region"]
    ELSE IF _default_region # None THEN _default_region ELSE None

-----------------------------------------------------------------------------
\* C19: an operation changes nothing but the section temp-<base profile
\* name>: every other section the file and the parser held before the
\* operation, the base profile included, is there afterwards with the same
\* fields, and no section other than the temporary one is added.  Holding
\* for every operation, it holds from construction over any sequence of
\* refreshes.
OthersUntouched(before, after) ==
    /\ DOMAIN before \ {TempName} = DOMAIN after \ {TempName}
    /\ \A n \in DOMAIN before \ {TempName} : after[n] = before[n]

C19_OnlyTemporarySectionIsWritten ==
    last.op # "new" =>
        /\ OthersUntouched(last.pre.file, credentials_file)
        /\ OthersUntouched(last.pre.sections, sections)
        /\ DOMAIN credentials_file \ {TempName} = {_profile_name, "other"}

\* a refresh has written the file, which holds a section of another profile
C19_Witness ==
    /\ WritesMade = 1
    /\ "other" \in DOMAIN last.pre.file
    /\ TempName \notin DOMAIN last.pre.file
    /\ TempName \in DOMAIN credentials_file

-----------------------------------------------------------------------------
\* C20: when assume_role fails inside sessionFor(a), the call ends in the
\* provider's error and the role-session cache is as it was, with no entry
\* for a; and a later sessionFor(a) then calls assume_role again instead of
\* returning anything cached.
LastAssumeFailed == AssumeCallsMade > 0 /\ ~LastAssume.response.ok

C20_FailedAssumeRoleIsNotCached ==
    /\ (SessionCall /\ LastAssumeFailed) =>
          /\ last.error = "ClientError"
          /\ AssumeCallsMade = 1
          /\ _role_sessions = last.pre.sessions
          /\ ~Cached(_role_sessions, last.account)
    /\ (SessionCall /\ ~Cached(last.pre.sessions, last.account)
            /\ last.pre.nassume > 0 /\ last.error = None) =>
          /\ AssumeCallsMade = 1
          /\ LastAssume.request.RoleSessionName = "assume-" \o last.account
          /\ LastAssume.response.ok

\* sessionFor(a) succeeded with a fresh call after an earlier call for a failed
C20_Witness ==
    /\ SessionCall
    /\ last.error = None
    /\ Len(assumeLog) = 2
    /\ ~assumeLog[1].response.ok
    /\ assumeLog[1].request.RoleSessionName = "assume-" \o last.account
    /\ assumeLog[2].response.ok
    /\ AssumeCallsMade = 1

-----------------------------------------------------------------------------
\* C21: for every configuration that passes schema validation, account names
\* identify accounts uniquely: for each configured account name n,
\* account_id_for_name(n) is the id of the only account named n, and
\* account_name_for_id(account_id_for_name(n)) = n.
AccountsNamed(n) == {i \in 1..Len(ConfiguredAccounts) : ConfiguredAccounts[i].name = n}

AccountsWithId(x) == {i \in 1..Len(ConfiguredAccounts) : ConfiguredAccounts[i].id = x}

NamesOfId(x) == {ConfiguredAccounts[i].name : i \in AccountsWithId(x)}

C21_AccountNamesIdentifyAccounts ==
    /\ (last.op = "account_id_for_name" /\ IsConfigured(last.account)) =>
          /\ Cardinality(AccountsNamed(last.account)) = 1
          /\ \A i \in AccountsNamed(last.account) :
                last.result = ConfiguredAccounts[i].id
    /\ (last.op = "account_name_for_id" /\ AccountsWithId(last.account) # {}) =>
          \A n \in NamesOfId(last.account) :
              ConfiguredId(n) = last.account => last.result = n

\* What the lookups do guarantee: the first record that matches is the one
\* returned, and a name or id no record carries yields None.
LookupReturnsFirstMatch ==
    /\ last.op = "account_id_for_name" =>
          IF IsConfigured(last.account)
          THEN last.result = ConfiguredId(last.account)
          ELSE last.result = None
    /\ last.op = "account_name_for_id" =>
          IF AccountsWithId(last.account) = {}
          THEN last.result = None
          ELSE \E i \in AccountsWithId(last.account) :
                  /\ last.result = ConfiguredAccounts[i].name
                  /\ \A j \in AccountsWithId(last.account) : i <= j

\* a validated document in which two records carry the name just looked up
TwoAccountsShareTheName ==
    /\ last.op = "account_id_for_name"
    /\ Cardinality(AccountsNamed(last.account)) = 2

\* a validated document in which two names share the id just looked up
TwoNamesShareTheId ==
    /\ last.op = "account_name_for_id"
    /\ Cardinality(NamesOfId(last.account)) = 2

-----------------------------------------------------------------------------
\* C22: whenever _sts_client builds a new temporary STS client, the access
\* key id, the secret access key and the session token it passes all come
\* from one and the same non-expired temporary section; even when the clock
\* advances between the expiry check and the individual reads, none of the
\* three is absent and they are never taken from different sections.
ArgumentsRead == last.op \in {"token_read", "built"} \/
                 (last.op = "raised" /\ last.error = "PartialCredentialsError")

FromTheTemporarySection(value, key) ==
    /\ HasTemp(sections)
    /\ key \in DOMAIN sections[TempName]
    /\ value = sections[TempName][key]

C22_ClientArgumentsFromOneValidSection ==
    ArgumentsRead =>
        /\ last.key # None /\ last.secret # None /\ last.token # None
        /\ FromTheTemporarySection(last.key, "aws_access_key_id")
        /\ FromTheTemporarySection(last.secret, "aws_secret_access_key")
        /\ FromTheTemporarySection(last.token, "aws_session_token")

\* What does hold: an argument that is not None is the field of the one
\* temporary section in memory, and with the clock standing still since
\* update_temp_profile returned all three are there.
ArgumentsNeverMixSections ==
    (last.op \in {"key_read", "secret_read", "token_read", "built"} \/
     (last.op = "raised" /\ last.error = "PartialCredentialsError")) =>
        /\ last.key # None => FromTheTemporarySection(last.key, "aws_access_key_id")
        /\ last.secret # None =>
              FromTheTemporarySection(last.secret, "aws_secret_access_key")
        /\ last.token # None => FromTheTemporarySection(last.token, "aws_session_token")
        /\ (HasExpiration(sections) /\ ExpirationOf(sections) >= now) =>
              last.key # None

\* the section expired after the key id had been read: a key id without a
\* secret key reaches boto3.client
SectionExpiredBetweenReads ==
    /\ last.op = "raised"
    /\ last.error = "PartialCredentialsError"
    /\ last.key # None
    /\ last.secret = None

\* the section expired between update_temp_profile and the first read: the
\* client is built with no credentials of its own
ClientBuiltWithoutCredentials ==
    /\ last.op = "built"
    /\ _sts_client_object.aws_access_key_id = None
    /\ _sts_client_object.aws_secret_access_key = None
    /\ _sts_client_object.aws_session_token = None

-----------------------------------------------------------------------------
\* C23: with two processes sharing one credentials file and driving
\* different base profiles, a refresh by the one process leaves the temporary
\* section that the other process wrote to the file earlier present and
\* unchanged in the file.
PeerTempName == "temp-other"

KeptInFile(name) ==
    /\ name \in DOMAIN credentials_file
    /\ credentials_file[name] = last.pre.file[name]

C23_RefreshKeepsOtherTemporarySection ==
    (RefreshCall /\ PeerTempName \in DOMAIN last.pre.file) => KeptInFile(PeerTempName)

\* What does hold: a refresh keeps the sections its process had read when it
\* was constructed, and a refresh that writes nothing leaves the file alone.
RefreshKeepsWhatItsProcessRead ==
    /\ (RefreshCall /\ PeerTempName \in DOMAIN last.pre.file
                    /\ PeerTempName \in DOMAIN last.pre.sections) =>
          KeptInFile(PeerTempName)
    /\ (RefreshCall /\ PeerTempName \in DOMAIN last.pre.file /\ WritesMade = 0) =>
          KeptInFile(PeerTempName)

\* the refresh rewrote the file from a parser that was filled before the
\* other process wrote its temporary section: that section is gone
OtherTemporarySectionLost ==
    /\ RefreshCall
    /\ last.error = None
    /\ PeerTempName \in DOMAIN last.pre.file
    /\ PeerTempName \notin DOMAIN credentials_file
    /\ TempName \in DOMAIN credentials_file

\* the refresh rewrote the file from a parser that was filled after the
\* other process wrote its temporary section: both sections are in the file
BothTemporarySectionsKept ==
    /\ RefreshCall
    /\ last.error = None
    /\ last.pre.file # credentials_file
    /\ PeerTempName \in DOMAIN last.pre.sections
    /\ KeptInFile(PeerTempName)
    /\ TempName \in DOMAIN credentials_file

====
